---- MODULE Spec2Model ----
(***************************************************************************)
(* Tenant isolation, quota admission and hybrid retrieval of znai-cloud,   *)
(* as laid down in the multi-organisation backend (routes auth, documents, *)
(* chat; middleware auth; services document_processor).                    *)
(***************************************************************************)
EXTENDS Integers, Sequences, FiniteSets, TLC

\* ------------------------------------------------------------------ bounds
MaxUsers == 3
MaxActors == 2
MaxOrgs == 2
MaxDocIds == 2
MaxReqs == 2
MaxInvites == 1
MaxUses == 2
MaxNow == 1
MaxLimit == 2
\* quota values given to the rows of the model (columns, set per row)
MaxDocuments == 1
PersonalMaxDocuments == 1
MaxMembers == 2
MaxQueriesPerUserDaily == 2
MaxQueriesOrgDaily == 3
PersonalMaxQueriesDaily == 1
MaxChats == 2
MaxTextLen == 3
MaxTermLen == 2
MaxTerms == 2
MaxResults == 1
MaxInputLen == 2
MaxMessages == 4

\* ------------------------------------------------------------------ domains
Users == 1..MaxUsers
\* the users that act in the document specification
Actors == 1..MaxActors
\* the account set_platform_owner.sh names
PlatformOwner == 1
Orgs == 1..MaxOrgs
DocIds == 1..MaxDocIds
Reqs == 1..MaxReqs
InviteIds == 1..MaxInvites
ChatReqs == 1..MaxChats
None == "None"
\* NULL in an integer column (users.organization_id, documents.organization_id)
Null == 0
NoDoc == [status |-> "absent"]
NoInvite == [status |-> "absent"]
Visibilities == {"organization", "private"}
Scopes == {"all", "organization", "private"}
Scores == {20, 50}
ScoreThreshold == 35
Limits == 1..MaxLimit

VARIABLES users, orgs, invites, members, regs, docs, vectors, files,
          counters, uploads, nextDoc, now, chats, queries_today, query_logs,
          custom_terminology, retrieved, search_results, context, step,
          messages, loading, input, requests

vars == <<users, orgs, invites, members, regs, docs, vectors, files,
          counters, uploads, nextDoc, now, chats, queries_today, query_logs,
          custom_terminology, retrieved, search_results, context, step,
          messages, loading, input, requests>>

tenancy == <<users, orgs, invites, members, regs>>
documents == <<docs, vectors, files, counters, uploads, nextDoc>>
chat == <<chats, queries_today, query_logs>>
answering == <<custom_terminology, retrieved, search_results, context, step>>
chatPage == <<messages, loading, input, requests>>

\* ------------------------------------------------------------------ helpers
Max(a, b) == IF a >= b THEN a ELSE b
Min(a, b) == IF a <= b THEN a ELSE b

get_current_user_ignoring_organization(u) == users[u].status = "active"

\* middleware/auth.py get_current_user: the user row is active and, when the
\* user has an organization, the organization is active.
get_current_user(u) ==
    /\ users[u].status = "active"
    /\ users[u].organization_id # Null =>
          orgs[users[u].organization_id].status = "active"

\* middleware/auth.py require_org_admin
require_org_admin(u) ==
    /\ get_current_user(u)
    /\ users[u].organization_id # Null
    /\ users[u].role_in_org \in {"owner", "admin"}

\* rows of organization_members with left_at = NULL
ActiveMembers(o) ==
    {i \in 1..Len(members) :
        members[i].organization_id = o /\ ~members[i].left}

\* ------------------------------------------------------------------ Init
Init ==
    /\ users = [u \in Users |->
                  [status |-> "none", organization_id |-> Null,
                   role_in_org |-> None, is_platform_admin |-> FALSE]]
    /\ orgs = [o \in Orgs |-> [status |-> "none", owner_id |-> Null]]
    /\ invites = [i \in InviteIds |-> NoInvite]
    /\ members = <<>>
    /\ regs = [u \in Users |-> Null]
    /\ docs = [d \in DocIds |-> NoDoc]
    /\ vectors = {}
    /\ files = {}
    /\ counters = [u \in Users |-> 0]
    /\ uploads = [r \in Reqs |-> [pc |-> "idle"]]
    /\ nextDoc = 1
    /\ now = 0
    /\ chats = [r \in ChatReqs |-> [pc |-> "idle"]]
    /\ queries_today = [u \in Users |-> 0]
    /\ query_logs = [o \in Orgs |-> [day \in 0..MaxNow |-> 0]]
    /\ custom_terminology = <<>>
    /\ retrieved = <<>>
    /\ search_results = <<>>
    /\ context = <<>>
    /\ step = "idle"
    /\ messages = <<>>
    /\ loading = FALSE
    /\ input = <<>>
    /\ requests = 0

\* ------------------------------------------------------------------ tenancy
\* members of an organization as the quota check counts them
current_members(o) == Cardinality({u \in Users : users[u].organization_id = o})

FreeOrgs == {o \in Orgs : orgs[o].status = "none"}
FreeInvites == {i \in InviteIds : invites[i].status = "absent"}

\* set_platform_owner.sh: UPDATE users SET is_platform_admin = true
SetPlatformOwner ==
    /\ users[PlatformOwner].status # "none"
    /\ ~users[PlatformOwner].is_platform_admin
    /\ users' = [users EXCEPT ![PlatformOwner].is_platform_admin = TRUE]
    /\ UNCHANGED <<orgs, invites, members, regs, documents, chat, now, answering, chatPage>>

\* routes/auth.py register, branch 3 (personal mode): status pending
RegisterPersonal(u) ==
    /\ users[u].status = "none"
    /\ regs[u] = Null
    /\ users' = [users EXCEPT ![u].status = "pending",
                              ![u].organization_id = Null,
                              ![u].role_in_org = None]
    /\ UNCHANGED <<orgs, invites, members, regs, documents, chat, now, answering, chatPage>>

\* POST /admin/users/{id}/approve by a platform administrator
ApproveUser(a, u) ==
    /\ get_current_user(a)
    /\ users[a].is_platform_admin
    /\ users[u].status = "pending"
    /\ users' = [users EXCEPT ![u].status = "active"]
    /\ UNCHANGED <<orgs, invites, members, regs, documents, chat, now, answering, chatPage>>

\* the platform administrator blocks, deletes or unblocks an organization
SetOrganizationStatus(a, o, status) ==
    /\ get_current_user(a)
    /\ users[a].is_platform_admin
    /\ orgs[o].status \notin {"none", status}
    /\ orgs' = [orgs EXCEPT ![o].status = status]
    /\ UNCHANGED <<users, invites, members, regs, documents, chat, now, answering, chatPage>>

\* routes/auth.py register, branch 2 (organization_name given): the
\* organization is created active, the user is its owner and is active.
RegisterOrganization(u) ==
    /\ users[u].status = "none"
    /\ regs[u] = Null
    /\ FreeOrgs # {}
    /\ LET o == CHOOSE x \in FreeOrgs : \A y \in FreeOrgs : x <= y IN
         /\ orgs' = [orgs EXCEPT ![o] = [status |-> "active", owner_id |-> u]]
         /\ users' = [users EXCEPT ![u].status = "active",
                                   ![u].organization_id = o,
                                   ![u].role_in_org = "owner"]
    /\ UNCHANGED <<invites, members, regs, documents, chat, now, answering, chatPage>>

create_invite_result_any_role(a) ==
    IF ~get_current_user(a) THEN "403_inactive"
    ELSE IF users[a].organization_id = Null THEN "400_no_organization"
    ELSE IF ~(current_members(users[a].organization_id) < MaxMembers)
         THEN "400_limit"
    ELSE "201"

\* POST /organizations/invites, its answer: authentication, role check
\* (require_org_admin), member quota check (current_members < max_members)
create_invite_result(a) ==
    IF ~get_current_user(a) THEN "403_inactive"
    ELSE IF users[a].organization_id = Null THEN "400_no_organization"
    ELSE IF users[a].role_in_org \notin {"owner", "admin"} THEN "403_role"
    ELSE IF ~(current_members(users[a].organization_id) < MaxMembers)
         THEN "400_limit"
    ELSE "201"

check_max_uses_nonnegative(max_uses) == max_uses >= 0

\* organization_invites: CONSTRAINT check_max_uses
check_max_uses(max_uses) == max_uses > 0

\* organization_invites: CONSTRAINT check_used_count
check_used_count(used_count, max_uses) ==
    used_count >= 0 /\ used_count <= max_uses

\* POST /organizations/invites: the row is inserted when the checks pass and
\* the table's constraints accept it
CreateInvite(a, max_uses, default_role) ==
    /\ users[a].status # "none"
    /\ FreeInvites # {}
    /\ IF create_invite_result(a) = "201" /\ check_max_uses(max_uses)
       THEN LET i == CHOOSE x \in FreeInvites : \A y \in FreeInvites : x <= y IN
            invites' = [invites EXCEPT ![i] =
                    [status |-> "active",
                     organization_id |-> users[a].organization_id,
                     created_by_user_id |-> a,
                     max_uses |-> max_uses, used_count |-> 0,
                     expires_at |-> now + 1,
                     default_role |-> default_role,
                     locked_by |-> Null]]
       ELSE UNCHANGED invites
    /\ UNCHANGED <<users, orgs, members, regs, documents, chat, now, answering, chatPage>>

RedeemableIgnoringStatus(i) ==
    /\ invites[i].status # "absent"
    /\ invites[i].used_count < invites[i].max_uses
    /\ now < invites[i].expires_at

RedeemableIgnoringExpiry(i) ==
    /\ invites[i].status = "active"
    /\ invites[i].used_count < invites[i].max_uses

\* validate_invite: exists, active, not expired, uses < max_uses
Redeemable(i) ==
    /\ invites[i].status = "active"
    /\ invites[i].used_count < invites[i].max_uses
    /\ now < invites[i].expires_at

\* the answer of register?invite=<code> once the invite row is read
register_invite_result(i) == IF Redeemable(i) THEN "201" ELSE "InviteInvalid"

\* routes/auth.py register, branch 1, first half: validate_invite under a
\* row lock on the invite (SELECT ... FOR UPDATE waits while it is held); an
\* invite found past its expiry is marked expired there.
RegisterInviteValidate(u, i) ==
    /\ users[u].status = "none"
    /\ regs[u] = Null
    /\ invites[i].status # "absent" => invites[i].locked_by = Null
    /\ IF register_invite_result(i) = "201"
       THEN /\ invites' = [invites EXCEPT ![i].locked_by = u]
            /\ regs' = [regs EXCEPT ![u] = i]
       ELSE /\ invites' = IF /\ invites[i].status = "active"
                             /\ now >= invites[i].expires_at
                          THEN [invites EXCEPT ![i].status = "expired"]
                          ELSE invites
            /\ regs' = regs
    /\ UNCHANGED <<users, orgs, members, documents, chat, now, answering, chatPage>>

RegisterInviteCommitNoCount(u) ==
    /\ regs[u] # Null
    /\ LET i == regs[u]
           inv == invites[i] IN
         /\ users' = [users EXCEPT ![u].status = "active",
                                   ![u].organization_id = inv.organization_id,
                                   ![u].role_in_org = inv.default_role]
         /\ invites' = [invites EXCEPT ![i].locked_by = Null]
         /\ members' = Append(members,
                [organization_id |-> inv.organization_id, user_id |-> u,
                 role |-> inv.default_role, left |-> FALSE, invite |-> i])
    /\ regs' = [regs EXCEPT ![u] = Null]
    /\ UNCHANGED <<orgs, documents, chat, now, answering, chatPage>>

RegisterInviteCommitDoubleRow(u) ==
    /\ regs[u] # Null
    /\ LET i == regs[u]
           inv == invites[i]
           row == [organization_id |-> inv.organization_id, user_id |-> u,
                   role |-> inv.default_role, left |-> FALSE, invite |-> i] IN
         /\ users' = [users EXCEPT ![u].status = "active",
                                   ![u].organization_id = inv.organization_id,
                                   ![u].role_in_org = inv.default_role]
         /\ invites' = [invites EXCEPT ![i].used_count = @ + 1,
                                       ![i].locked_by = Null]
         /\ members' = members \o <<row, row>>
    /\ regs' = [regs EXCEPT ![u] = Null]
    /\ UNCHANGED <<orgs, documents, chat, now, answering, chatPage>>

\* routes/auth.py register, branch 1, second half: the user is created in
\* the invite's organization with its default role, active at once;
\* used_count is incremented; the membership history row is inserted; the
\* transaction commits and releases the lock.
RegisterInviteCommit(u) ==
    /\ regs[u] # Null
    /\ LET i == regs[u]
           inv == invites[i] IN
         IF check_used_count(inv.used_count + 1, inv.max_uses)
         THEN /\ users' = [users EXCEPT ![u].status = "active",
                                   ![u].organization_id = inv.organization_id,
                                   ![u].role_in_org = inv.default_role]
              /\ invites' = [invites EXCEPT ![i].used_count = @ + 1,
                                            ![i].locked_by = Null]
              /\ members' = Append(members,
                     [organization_id |-> inv.organization_id, user_id |-> u,
                      role |-> inv.default_role, left |-> FALSE, invite |-> i])
         ELSE \* the UPDATE violates check_used_count: the transaction rolls back
              /\ invites' = [invites EXCEPT ![i].locked_by = Null]
              /\ UNCHANGED <<users, members>>
    /\ regs' = [regs EXCEPT ![u] = Null]
    /\ UNCHANGED <<orgs, documents, chat, now, answering, chatPage>>

\* DELETE /organizations/my/members/{user_id}, its answer
remove_member_result(a, t) ==
    IF ~get_current_user(a) THEN "403_inactive"
    ELSE IF users[a].organization_id = Null THEN "400_no_organization"
    ELSE IF users[a].role_in_org \notin {"owner", "admin"} THEN "403_role"
    ELSE IF users[t].organization_id # users[a].organization_id THEN "404"
    ELSE IF users[t].role_in_org = "owner" THEN "403_owner"
    ELSE "204"

\* DELETE /organizations/my/members/{user_id}: left_at is set on the
\* membership row, the target's organization_id and role_in_org are cleared
RemoveMember(a, t) ==
    /\ users[a].status # "none"
    /\ users[t].status # "none"
    /\ IF remove_member_result(a, t) = "204"
       THEN /\ members' = [k \in 1..Len(members) |->
                 IF /\ members[k].user_id = t
                    /\ members[k].organization_id = users[a].organization_id
                    /\ ~members[k].left
                 THEN [members[k] EXCEPT !.left = TRUE]
                 ELSE members[k]]
            /\ users' = [users EXCEPT ![t].organization_id = Null,
                                      ![t].role_in_org = None]
       ELSE UNCHANGED <<users, members>>
    /\ UNCHANGED <<orgs, invites, regs, documents, chat, now, answering, chatPage>>

\* DELETE /organizations/my/invites/{invite_id}, its answer
revoke_invite_result(a, i) ==
    IF ~get_current_user(a) THEN "403_inactive"
    ELSE IF users[a].organization_id = Null THEN "400_no_organization"
    ELSE IF users[a].role_in_org \notin {"owner", "admin"} THEN "403_role"
    ELSE IF \/ invites[i].status = "absent"
            \/ invites[i].organization_id # users[a].organization_id
         THEN "404"
    ELSE IF invites[i].status # "active" THEN "400_not_active"
    ELSE "204"

\* DELETE /organizations/my/invites/{invite_id}: active -> revoked (the
\* UPDATE waits for a registration that holds the row)
RevokeInvite(a, i) ==
    /\ users[a].status # "none"
    /\ invites[i].status # "absent" => invites[i].locked_by = Null
    /\ invites' = IF revoke_invite_result(a, i) = "204"
                  THEN [invites EXCEPT ![i].status = "revoked"]
                  ELSE invites
    /\ UNCHANGED <<users, orgs, members, regs, documents, chat, now, answering, chatPage>>

\* the passage of time, in days (invite expiry and date.today() are
\* evaluated against it); nothing else happens at midnight
Tick ==
    /\ now < MaxNow
    /\ now' = now + 1
    /\ UNCHANGED <<tenancy, documents, chat, answering, chatPage>>

TenancyNext(U) ==
    \/ SetPlatformOwner
    \/ \E u \in U : RegisterPersonal(u)
    \/ \E a, u \in U : ApproveUser(a, u)
    \/ \E u \in U : RegisterOrganization(u)
    \/ \E a \in U, m \in 0..MaxUses, r \in {"member", "admin"} :
          CreateInvite(a, m, r)
    \/ \E u \in U, i \in InviteIds : RegisterInviteValidate(u, i)
    \/ \E u \in U : RegisterInviteCommit(u)
    \/ \E a, t \in U : RemoveMember(a, t)
    \/ \E a \in U, i \in InviteIds : RevokeInvite(a, i)

\* ------------------------------------------------------------------ retrieval
\* one chunk of an indexed document, with the metadata index_document writes
Chunk(d, o, u, v, sc) ==
    [document_id |-> d, organization_id |-> o, uploaded_by_user_id |-> u,
     visibility |-> v, score |-> sc]

\* ExactMatchFilter list: every (key, value) must match the chunk's metadata
Matches(c, filters) == \A f \in filters : c[f[1]] = f[2]

RECURSIVE ByScore(_)
\* the store's answer, best score first
ByScore(S) ==
    IF S = {} THEN <<>>
    ELSE LET best == CHOOSE c \in S : \A e \in S :
                        \/ c.score > e.score
                        \/ c.score = e.score /\ c.document_id <= e.document_id
         IN <<best>> \o ByScore(S \ {best})

TakeAll(seq, n) == seq

\* seq[:n]
Take(seq, n) == SubSeq(seq, 1, Min(n, Len(seq)))

\* document_processor._search_with_filter(query, filters, limit): the
\* vector store's query(embedding, filter, top_k)
search_with_filter(filters, limit) ==
    Take(ByScore({c \in vectors : Matches(c, filters)}), limit)

RECURSIVE SortAscendingReversed(_)
SortAscendingReversed(seq) ==
    IF seq = <<>> THEN <<>>
    ELSE LET x == seq[Len(seq)]
             s == SortAscendingReversed(SubSeq(seq, 1, Len(seq) - 1))
             k == Cardinality({j \in 1..Len(s) : s[j].score > x.score})
         IN SubSeq(s, 1, k) \o <<x>> \o SubSeq(s, k + 1, Len(s))

RECURSIVE SortByScoreReverse(_)
\* list.sort(key=score, reverse=True): stable, equal scores keep their order
SortByScoreReverse(seq) ==
    IF seq = <<>> THEN <<>>
    ELSE LET x == seq[Len(seq)]
             s == SortByScoreReverse(SubSeq(seq, 1, Len(seq) - 1))
             k == Cardinality({j \in 1..Len(s) : s[j].score >= x.score})
         IN SubSeq(s, 1, k) \o <<x>> \o SubSeq(s, k + 1, Len(s))

OrgFilter(organization_id) == {<<"organization_id", organization_id>>}
PrivateFilterOwnUploads(user_id) == {<<"uploaded_by_user_id", user_id>>}
PrivateFilter(user_id) ==
    {<<"uploaded_by_user_id", user_id>>, <<"visibility", "private">>}

search_all_unguarded(user_id, organization_id, limit) ==
    Take(SortByScoreReverse(
            search_with_filter(OrgFilter(organization_id), limit)
            \o search_with_filter(PrivateFilter(user_id), limit)), limit)

search_all_own_uploads(user_id, organization_id, limit) ==
    LET org_results ==
            IF organization_id # Null
            THEN search_with_filter(OrgFilter(organization_id), limit)
            ELSE <<>>
        private_results ==
            search_with_filter({<<"uploaded_by_user_id", user_id>>}, limit)
    IN Take(SortByScoreReverse(org_results \o private_results), limit)

\* document_processor.search, search_scope "all": two queries, merged
search_all(user_id, organization_id, limit) ==
    LET org_results ==
            IF organization_id # Null
            THEN search_with_filter(OrgFilter(organization_id), limit)
            ELSE <<>>
        private_results == search_with_filter(PrivateFilter(user_id), limit)
    IN Take(SortByScoreReverse(org_results \o private_results), limit)

\* document_processor.search
search(user_id, organization_id, search_scope, limit) ==
    IF search_scope = "organization"
    THEN IF organization_id = Null THEN <<>>
         ELSE search_with_filter(OrgFilter(organization_id), limit)
    ELSE IF search_scope = "private"
    THEN search_with_filter(PrivateFilter(user_id), limit)
    ELSE search_all(user_id, organization_id, limit)

Range(seq) == {seq[j] : j \in 1..Len(seq)}

\* ------------------------------------------------------------------ documents
\* SQLAlchemy renders  column == value  as  column IS NULL  when the Python
\* value is None, and as  column = value  otherwise
ColumnEq(column, value) ==
    IF value = Null THEN column = Null ELSE column = value

Present == {d \in DocIds : docs[d].status # "absent"}

\* the User row get_current_user hands to a route
CurrentUser(u) ==
    [id |-> u, organization_id |-> users[u].organization_id,
     role_in_org |-> users[u].role_in_org,
     is_platform_admin |-> users[u].is_platform_admin]

\* routes/documents.py list_documents (GET /documents)
list_documents(current_user) ==
    {d \in Present :
        \/ ColumnEq(docs[d].organization_id, current_user.organization_id)
        \/ /\ docs[d].uploaded_by_user_id = current_user.id
           /\ docs[d].visibility = "private"}

\* GET /documents, its answer: the listing is served to an authenticated user
list_result(u) == IF ~get_current_user(u) THEN "403_inactive" ELSE "200"

\* routes/chat.py step 3: the search a chat request of current_user issues
chat_search(current_user, search_scope, limit) ==
    search(current_user.id, current_user.organization_id, search_scope, limit)

org_document_count(o) ==
    Cardinality({d \in Present : docs[d].organization_id = o})
private_document_count(u) ==
    Cardinality({d \in Present : /\ docs[d].uploaded_by_user_id = u
                                 /\ docs[d].visibility = "private"})

upload_result_unguarded(u, visibility) ==
    IF ~get_current_user(u) THEN "403_inactive"
    ELSE IF visibility = "organization"
    THEN IF org_document_count(users[u].organization_id) >= MaxDocuments
         THEN "400_limit" ELSE "admitted"
    ELSE IF private_document_count(u) >= PersonalMaxDocuments
         THEN "400_limit" ELSE "admitted"

\* routes/documents.py upload_document up to the quota check: its answer
upload_result(u, visibility) ==
    IF ~get_current_user(u) THEN "403_inactive"
    ELSE IF users[u].organization_id = Null /\ visibility = "organization"
    THEN "400_no_organization"
    ELSE IF visibility = "organization"
    THEN IF org_document_count(users[u].organization_id) >= MaxDocuments
         THEN "400_limit" ELSE "admitted"
    ELSE IF private_document_count(u) >= PersonalMaxDocuments
         THEN "400_limit" ELSE "admitted"

IdleReqs == {r \in Reqs : uploads[r].pc = "idle"}

\* upload_document, validation and quota check (Upload Flow step 1)
UploadCheck(r, u, visibility) ==
    /\ users[u].status # "none"
    /\ IdleReqs # {} /\ r = CHOOSE x \in IdleReqs : \A y \in IdleReqs : x <= y
    /\ nextDoc <= MaxDocIds
    /\ IF upload_result(u, visibility) = "admitted"
       THEN /\ uploads' = [uploads EXCEPT ![r] =
                  [pc |-> "admitted", user |-> u, visibility |-> visibility,
                   organization_id |-> users[u].organization_id,
                   doc |-> nextDoc]]
            /\ nextDoc' = nextDoc + 1
       ELSE UNCHANGED <<uploads, nextDoc>>
    /\ UNCHANGED <<tenancy, chat, docs, vectors, files, counters, now, answering, chatPage>>

\* Upload Flow step 2: the file is saved under the user's directory
UploadSave(r) ==
    /\ uploads[r].pc = "admitted"
    /\ files' = files \cup {uploads[r].doc}
    /\ uploads' = [uploads EXCEPT ![r].pc = "saved"]
    /\ UNCHANGED <<tenancy, chat, docs, vectors, counters, nextDoc, now, answering, chatPage>>

\* upload_document, "Создание документа": the Document row, status processing
UploadCreate(r) ==
    /\ uploads[r].pc = "saved"
    /\ LET q == uploads[r] IN
         docs' = [docs EXCEPT ![q.doc] =
            [status |-> "processing",
             organization_id |->
                IF q.visibility = "organization" THEN q.organization_id
                ELSE Null,
             uploaded_by_user_id |-> q.user,
             visibility |-> q.visibility]]
    /\ uploads' = [uploads EXCEPT ![r].pc = "created"]
    /\ UNCHANGED <<tenancy, chat, vectors, files, counters, nextDoc, now, answering, chatPage>>

\* index_document: chunks go to the vector store with the row's metadata
UploadIndex(r, score) ==
    /\ uploads[r].pc = "created"
    /\ LET q == uploads[r] IN
         vectors' = vectors \cup
            {Chunk(q.doc,
                   IF q.visibility = "organization" THEN q.organization_id
                   ELSE Null,
                   q.user, q.visibility, score)}
    /\ uploads' = [uploads EXCEPT ![r].pc = "indexed"]
    /\ UNCHANGED <<tenancy, chat, docs, files, counters, nextDoc, now, answering, chatPage>>

\* Upload Flow steps 7 and 8: the row is updated, the quota incremented
UploadFinish(r) ==
    /\ uploads[r].pc = "indexed"
    /\ LET q == uploads[r] IN
         /\ docs' = IF docs[q.doc].status = "absent" THEN docs
                    ELSE [docs EXCEPT ![q.doc].status = "indexed"]
         /\ counters' = IF q.visibility = "private"
                        THEN [counters EXCEPT ![q.user] = @ + 1]
                        ELSE counters
    /\ uploads' = [uploads EXCEPT ![r] = [pc |-> "idle"]]
    /\ UNCHANGED <<tenancy, chat, vectors, files, nextDoc, now, answering, chatPage>>

can_delete_any_member(u, d) ==
    \/ docs[d].uploaded_by_user_id = u
    \/ docs[d].organization_id = users[u].organization_id

\* routes/documents.py delete_document: can_delete
can_delete(u, d) ==
    \/ docs[d].uploaded_by_user_id = u
    \/ /\ docs[d].organization_id = users[u].organization_id
       /\ users[u].role_in_org \in {"owner", "admin"}

\* routes/documents.py delete_document, its answer: db.get returns None for
\* a missing row and doc.uploaded_by_user_id then raises (an unhandled
\* AttributeError, answered 500)
delete_result(u, d) ==
    IF ~get_current_user(u) THEN "403_inactive"
    ELSE IF docs[d].status = "absent" THEN "500"
    ELSE IF ~can_delete(u, d) THEN "403"
    ELSE "204"

\* DELETE /documents/{document_id}: the row is removed, its quota slot
\* released and delete-by-document-id sent to the vector store
DeleteDocument(u, d) ==
    /\ users[u].status # "none"
    /\ d < nextDoc
    /\ IF delete_result(u, d) = "204"
       THEN /\ docs' = [docs EXCEPT ![d] = NoDoc]
            /\ vectors' = {c \in vectors : c.document_id # d}
            /\ files' = files \ {d}
            /\ counters' = IF docs[d].visibility = "private"
                           THEN [counters EXCEPT
                                   ![docs[d].uploaded_by_user_id] = Max(0, @ - 1)]
                           ELSE counters
       ELSE UNCHANGED <<docs, vectors, files, counters>>
    /\ UNCHANGED <<tenancy, chat, uploads, nextDoc, now, answering, chatPage>>

DocumentsNext(U) ==
    \/ \E r \in Reqs, u \in U, v \in Visibilities : UploadCheck(r, u, v)
    \/ \E r \in Reqs : UploadSave(r)
    \/ \E r \in Reqs : UploadCreate(r)
    \/ \E r \in Reqs, sc \in Scores : UploadIndex(r, sc)
    \/ \E r \in Reqs : UploadFinish(r)
    \/ \E u \in U, d \in DocIds : DeleteDocument(u, d)

\* ------------------------------------------------------------------ chat
\* chat_query: the count of query_logs rows of the organization with
\* created_at >= date.today()
org_queries_today(o) == query_logs[o][now]

chat_result_off_by_one(u) ==
    IF ~get_current_user(u) THEN "403_inactive"
    ELSE IF users[u].organization_id # Null
    THEN IF queries_today[u] > MaxQueriesPerUserDaily THEN "429_user_daily"
         ELSE IF org_queries_today(users[u].organization_id) > MaxQueriesOrgDaily
         THEN "429_org_daily"
         ELSE "admitted"
    ELSE IF queries_today[u] > PersonalMaxQueriesDaily THEN "429_user_daily"
    ELSE "admitted"

\* routes/chat.py chat_query step 2, its answer: the user's daily count
\* against the organization's per-user limit, then today's query_logs rows
\* of the organization against its aggregate limit; for a user without
\* organization the personal limit
chat_result(u) ==
    IF ~get_current_user(u) THEN "403_inactive"
    ELSE IF users[u].organization_id # Null
    THEN IF queries_today[u] >= MaxQueriesPerUserDaily THEN "429_user_daily"
         ELSE IF org_queries_today(users[u].organization_id) >= MaxQueriesOrgDaily
         THEN "429_org_daily"
         ELSE "admitted"
    ELSE IF queries_today[u] >= PersonalMaxQueriesDaily THEN "429_user_daily"
    ELSE "admitted"

IdleChats == {r \in ChatReqs : chats[r].pc = "idle"}

\* chat_query steps 1 and 2: settings and quota rows are loaded, the quota
\* is checked
ChatAdmit(r, u) ==
    /\ users[u].status # "none"
    /\ IdleChats # {} /\ r = CHOOSE x \in IdleChats : \A y \in IdleChats : x <= y
    /\ IF chat_result(u) = "admitted"
       THEN chats' = [chats EXCEPT ![r] =
               [pc |-> "admitted", user |-> u,
                organization_id |-> users[u].organization_id,
                loaded |-> queries_today[u]]]
       ELSE UNCHANGED chats
    /\ UNCHANGED <<tenancy, documents, queries_today, query_logs, now, answering, chatPage>>

\* chat_query step 3: the search in the vector store
ChatSearch(r) ==
    /\ chats[r].pc = "admitted"
    /\ chats' = [chats EXCEPT ![r].pc = "searched"]
    /\ UNCHANGED <<tenancy, documents, queries_today, query_logs, now, answering, chatPage>>

\* chat_query step 7: the completion call; it returns, or it raises (or the
\* client goes away) and the request ends with nothing committed
ChatComplete(r, returned) ==
    /\ chats[r].pc = "searched"
    /\ chats' = IF returned THEN [chats EXCEPT ![r].pc = "answered"]
                ELSE [chats EXCEPT ![r] = [pc |-> "idle"]]
    /\ UNCHANGED <<tenancy, documents, queries_today, query_logs, now, answering, chatPage>>

\* chat_query step 9: quota.queries_today += 1 on the row loaded in step 2,
\* the QueryLog row, commit
ChatCommit(r) ==
    /\ chats[r].pc = "answered"
    /\ queries_today' = [queries_today EXCEPT ![chats[r].user] = chats[r].loaded + 1]
    /\ query_logs' = IF chats[r].organization_id # Null
                     THEN [query_logs EXCEPT ![chats[r].organization_id][now] = @ + 1]
                     ELSE query_logs
    /\ chats' = [chats EXCEPT ![r] = [pc |-> "idle"]]
    /\ UNCHANGED <<tenancy, documents, now, answering, chatPage>>

ChatNext(U) ==
    \/ \E r \in ChatReqs, u \in U : ChatAdmit(r, u)
    \/ \E r \in ChatReqs : ChatSearch(r)
    \/ \E r \in ChatReqs, returned \in BOOLEAN : ChatComplete(r, returned)
    \/ \E r \in ChatReqs : ChatCommit(r)

\* ------------------------------------------------------------------ specifications
\* documents and retrieval, with the tenancy operations of MaxActors users
Next == TenancyNext(Actors) \/ DocumentsNext(Actors)

Spec == Init /\ [][Next]_vars

\* the tenant directory alone, all users, with the passage of time
TenancyStep == TenancyNext(Users) \/ Tick

SpecTenancy == Init /\ [][TenancyStep]_vars

\* chat requests, with the tenancy operations of MaxActors users
ChatStep == TenancyNext(Actors) \/ ChatNext(Actors)

SpecChat == Init /\ [][ChatStep]_vars

\* chat requests of the owners of organizations over several days
ChatDaysStep ==
    \/ \E u \in Actors : RegisterOrganization(u)
    \/ ChatNext(Actors)
    \/ Tick

SpecChatDays == Init /\ [][ChatDaysStep]_vars

\* the users whose requests are followed while organizations are blocked
Clients == Users \ {PlatformOwner}

\* uploads, deletions and chat requests of the clients, one upload and one
\* chat request at a time, while the platform administrator blocks and
\* unblocks organizations
SuspendStep ==
    \/ SetPlatformOwner
    \/ \E u \in Users : RegisterPersonal(u)
    \/ \E u \in Actors : RegisterOrganization(u)
    \/ \E a \in Actors, o \in Orgs, status \in {"active", "suspended", "deleted"} :
          SetOrganizationStatus(a, o, status)
    \/ \E u \in Clients, v \in Visibilities : UploadCheck(1, u, v)
    \/ UploadSave(1)
    \/ UploadCreate(1)
    \/ \E sc \in Scores : UploadIndex(1, sc)
    \/ UploadFinish(1)
    \/ \E u \in Clients, d \in DocIds : DeleteDocument(u, d)
    \/ \E u \in Clients : ChatAdmit(1, u)
    \/ ChatSearch(1)
    \/ \E returned \in BOOLEAN : ChatComplete(1, returned)
    \/ ChatCommit(1)

SpecSuspend == Init /\ [][SuspendStep]_vars

\* ------------------------------------------------------------------ claims
Authenticated == {u \in Users : get_current_user(u)}
Indexed(d) == \E c \in vectors : c.document_id = d
Results(u, scope, limit) == Range(chat_search(CurrentUser(u), scope, limit))

\* C1: a search with scope private or all issued by user u never returns a
\* chunk of a private document that another user uploaded, whatever the
\* organizations of u and of the uploader.
C1_PrivateIsolation ==
    \A u \in Users, scope \in {"private", "all"}, limit \in Limits :
        \A c \in Results(u, scope, limit) :
            \A d \in Present :
                (docs[d].visibility = "private"
                 /\ docs[d].uploaded_by_user_id # u) => c.document_id # d

\* C1 witness: Scenario B, a user without organization has an indexed private
\* document while a user of an organization gets results for scope all
C1_Witness ==
    \E u \in Authenticated, d \in Present :
        /\ docs[d].visibility = "private" /\ Indexed(d)
        /\ docs[d].uploaded_by_user_id # u
        /\ users[docs[d].uploaded_by_user_id].organization_id = Null
        /\ users[u].organization_id # Null
        /\ Results(u, "all", MaxLimit) # {}

\* C2: under any interleaving of concurrent uploads the number of documents
\* of a scope never exceeds its limit (max_documents of the organization,
\* personal_max_documents of the user).
C2_QuotaNeverExceeded ==
    /\ \A o \in Orgs : org_document_count(o) <= MaxDocuments
    /\ \A u \in Users : private_document_count(u) <= PersonalMaxDocuments

\* C4: a document has visibility organization exactly when its
\* organization_id is set, and private exactly when it is NULL; a user
\* without organization is refused an organization upload.
C4_DocumentOwnership ==
    /\ \A d \in Present :
          /\ docs[d].visibility = "organization" <=> docs[d].organization_id # Null
          /\ docs[d].visibility = "private" <=> docs[d].organization_id = Null
    /\ \A r \in Reqs :
          uploads[r].pc # "idle" /\ uploads[r].visibility = "organization"
             => uploads[r].organization_id # Null
    /\ \A u \in Authenticated :
          users[u].organization_id = Null
             => upload_result(u, "organization") = "400_no_organization"

\* C4 witness: both kinds of document exist and an active user without
\* organization is there to be refused
C4_Witness ==
    /\ \E d \in Present : docs[d].visibility = "organization"
    /\ \E d \in Present : docs[d].visibility = "private"
    /\ \E u \in Authenticated : users[u].organization_id = Null

\* C5: what list_documents and search return does not depend on
\* is_platform_admin, and a platform administrator gets no document of an
\* organization it is no member of and no document of another user.
C5_PlatformAdminNoContent ==
    \A u \in Authenticated :
        /\ \A flag \in BOOLEAN :
              list_documents([CurrentUser(u) EXCEPT !.is_platform_admin = flag])
                 = list_documents(CurrentUser(u))
        /\ users[u].is_platform_admin =>
              \A d \in list_documents(CurrentUser(u)) :
                  \/ docs[d].uploaded_by_user_id = u
                  \/ /\ docs[d].organization_id # Null
                     /\ docs[d].organization_id = users[u].organization_id

Deleted(d) ==
    /\ d < nextDoc
    /\ docs[d].status = "absent"
    /\ \A r \in Reqs : uploads[r].pc \in {"admitted", "saved"} => uploads[r].doc # d

\* C7: a second delete of the same document id is answered NotFound.
C7_SecondDeleteNotFound ==
    \A u \in Authenticated, d \in DocIds :
        Deleted(d) => delete_result(u, d) = "404"

\* the permission rule of delete
DeletePermitted(u, d) ==
    \/ docs[d].uploaded_by_user_id = u
    \/ /\ users[u].role_in_org \in {"owner", "admin"}
       /\ docs[d].visibility = "organization"
       /\ docs[d].organization_id = users[u].organization_id

\* C8: delete succeeds exactly for the uploader and for an owner or admin of
\* the organization an organization document belongs to; everybody else is
\* answered 403.
C8_DeletePermission ==
    \A u \in Authenticated, d \in Present :
        /\ delete_result(u, d) = "204" <=> DeletePermitted(u, d)
        /\ ~DeletePermitted(u, d) => delete_result(u, d) = "403"

\* C8 witness: a plain member faces a colleague's organization document, and
\* an owner or admin faces a private document of somebody else
C8_Witness ==
    /\ \E u \in Authenticated, d \in Present :
          /\ users[u].role_in_org = "member"
          /\ docs[d].uploaded_by_user_id # u
          /\ docs[d].organization_id = users[u].organization_id
    /\ \E u \in Authenticated, d \in Present :
          /\ users[u].role_in_org \in {"owner", "admin"}
          /\ docs[d].uploaded_by_user_id # u
          /\ docs[d].visibility = "private"

InFlight(u) == {r \in ChatReqs : chats[r].pc # "idle" /\ chats[r].user = u}

\* C9: a query is charged to the user's daily counter when it is admitted,
\* before retrieval and completion: every admitted request in flight is
\* already counted.
C9_ChargedAtAdmission ==
    \A u \in Users : queries_today[u] >= Cardinality(InFlight(u))

\* C10: an upload has its admission recorded (the row the quota check
\* counts exists) before its file is stored or its chunks are indexed.
C10_AdmissionRecordedFirst ==
    \A r \in Reqs :
        (uploads[r].pc # "idle"
         /\ (uploads[r].doc \in files \/ Indexed(uploads[r].doc)))
            => (docs[uploads[r].doc].status # "absent" \/ Deleted(uploads[r].doc))

\* membership rows created from invite i
RowsOf(i) == {k \in 1..Len(members) : members[k].invite = i}
Redeeming(i) == {u \in Users : regs[u] = i}

\* C3: an invite with max_uses = 1 yields one membership however its
\* redemptions interleave; once it is used, a further redemption is answered
\* InviteInvalid.
C3_SingleUseInvite ==
    \A i \in InviteIds :
        (invites[i].status # "absent" /\ invites[i].max_uses = 1) =>
            /\ Cardinality(RowsOf(i)) + Cardinality(Redeeming(i)) <= 1
            /\ Cardinality(RowsOf(i)) = 1 =>
                  register_invite_result(i) = "InviteInvalid"

\* C3 witness: the single-use invite has been redeemed, one more user has
\* yet to register, and the invite has not expired
C3_Witness ==
    \E i \in InviteIds, u \in Users :
        /\ invites[i].status = "active" /\ invites[i].max_uses = 1
        /\ Cardinality(RowsOf(i)) = 1
        /\ now < invites[i].expires_at
        /\ users[u].status = "none"

\* the per-user daily limit that applies to u: the organization's setting
\* for a member, the personal one otherwise
UserDailyLimit(u) ==
    IF users[u].organization_id # Null THEN MaxQueriesPerUserDaily
    ELSE PersonalMaxQueriesDaily

\* C11: a query is admitted exactly when the user's daily count is below the
\* per-user limit and, for a member of an organization only, the
\* organization's daily count is below its limit; a rejection names a limit
\* that is reached, and a user without organization is never answered
\* org_daily.
C11_AdmitQuery ==
    \A u \in Authenticated :
        LET o == users[u].organization_id IN
        /\ chat_result(u) = "admitted" <=>
              /\ queries_today[u] < UserDailyLimit(u)
              /\ o # Null => org_queries_today(o) < MaxQueriesOrgDaily
        /\ chat_result(u) = "429_user_daily" =>
              queries_today[u] >= UserDailyLimit(u)
        /\ chat_result(u) = "429_org_daily" =>
              o # Null /\ org_queries_today(o) >= MaxQueriesOrgDaily
        /\ chat_result(u) \in {"admitted", "429_user_daily", "429_org_daily"}

\* C11 witness: one member is stopped by the organization's limit while
\* under the per-user one, another user by the per-user limit
C11_Witness ==
    /\ \E u \in Authenticated :
          /\ chat_result(u) = "429_org_daily"
          /\ queries_today[u] < UserDailyLimit(u)
    /\ \E u \in Authenticated : chat_result(u) = "429_user_daily"

Existing == {i \in InviteIds : invites[i].status # "absent"}

\* the redeemability rule of the data model
RedeemableBySpec(i) ==
    /\ invites[i].status = "active"
    /\ invites[i].used_count < invites[i].max_uses
    /\ now < invites[i].expires_at

\* C12: a redemption succeeds exactly when the invite is active, has uses
\* left and has not expired; a used-up invite is answered InviteInvalid
\* whether expired or not; a registration passes validation only for an
\* invite redeemable at that moment, and membership rows come from validated
\* registrations only.
C12_RedeemIff ==
    /\ [](\A i \in Existing :
            /\ register_invite_result(i) = "201" <=> RedeemableBySpec(i)
            /\ ~RedeemableBySpec(i) => register_invite_result(i) = "InviteInvalid"
            /\ invites[i].used_count = invites[i].max_uses =>
                  register_invite_result(i) = "InviteInvalid")
    /\ [][/\ \A u \in Users :
               (regs[u] = Null /\ regs'[u] # Null) => RedeemableBySpec(regs'[u])
          /\ Len(members') > Len(members) =>
               \E u \in Users :
                  /\ regs[u] # Null /\ regs'[u] = Null
                  /\ invites[regs[u]].status = "active"
                  /\ invites[regs[u]].used_count < invites[regs[u]].max_uses
                  /\ members'[Len(members')].user_id = u
                  /\ members'[Len(members')].invite = regs[u]]_vars

\* C12 witness: Scenario D, an invite used max_uses times and not expired,
\* with a user still to register
C12_Witness ==
    \E i \in Existing, u \in Users :
        /\ invites[i].status = "active"
        /\ invites[i].used_count = invites[i].max_uses
        /\ Cardinality(RowsOf(i)) = invites[i].max_uses
        /\ now < invites[i].expires_at
        /\ users[u].status = "none"

TerminalStatuses == {"exhausted", "expired", "revoked"}

\* an invite no redemption may use any more: a terminal status, or every use
\* taken (the row keeps status active then)
Finished(i) ==
    \/ invites[i].status \in TerminalStatuses
    \/ invites[i].status = "active"
          /\ invites[i].used_count >= invites[i].max_uses

\* C14: the status of an invite changes only from active to exhausted,
\* expired or revoked; an invite that is exhausted, expired or revoked stays
\* so and no redemption of it succeeds afterwards.
C14_InviteStatus ==
    /\ [](\A i \in Existing :
            /\ invites[i].status \in {"active"} \cup TerminalStatuses
            /\ Finished(i) => register_invite_result(i) = "InviteInvalid")
    /\ [][\A i \in Existing :
            /\ invites'[i].status # invites[i].status =>
                  /\ invites[i].status = "active"
                  /\ invites'[i].status \in TerminalStatuses
            /\ Finished(i) =>
                  /\ Finished(i)'
                  /\ RowsOf(i)' = RowsOf(i)
                  /\ \A u \in Users : regs'[u] = i => regs[u] = i]_vars

\* C14 witness: an invite that was redeemed, then found expired at a later
\* redemption attempt and marked so
C14_Witness ==
    \E i \in Existing :
        /\ invites[i].status = "expired"
        /\ invites[i].used_count >= 1
        /\ invites[i].used_count < invites[i].max_uses

\* C15: an organization never has more than max_members members: creating
\* an invite is refused at the limit and every redemption checks it again.
C15_MaxMembers ==
    /\ \A o \in Orgs : current_members(o) <= MaxMembers
    /\ \A a \in Authenticated :
          (require_org_admin(a)
           /\ current_members(users[a].organization_id) >= MaxMembers)
             => create_invite_result(a) = "400_limit"

Registered == {u \in Users : users[u].status # "none"}
Managers == {a \in Authenticated : users[a].role_in_org \in {"owner", "admin"}}

ActiveRows(o, u) ==
    {k \in 1..Len(members) :
        /\ members[k].organization_id = o
        /\ members[k].user_id = u
        /\ ~members[k].left}

C18_SingleOwner ==
    \A o \in Orgs :
        orgs[o].status = "active" =>
            Cardinality({k \in ActiveMembers(o) : members[k].role = "owner"}) = 1

\* C19: a user's organization_id and role_in_org are set exactly when the
\* user has an active membership, and then equal that row's organization and
\* role; a removed member has neither.
C19_UserMirrorsMembership ==
    \A u \in Registered :
        LET rows == {k \in 1..Len(members) :
                        members[k].user_id = u /\ ~members[k].left} IN
        /\ (users[u].organization_id # Null /\ users[u].role_in_org # None)
              <=> rows # {}
        /\ users[u].organization_id # Null <=> users[u].role_in_org # None
        /\ \A k \in rows :
              /\ members[k].organization_id = users[u].organization_id
              /\ members[k].role = users[u].role_in_org

\* the entries of a result list that belong to chunk id
EntriesOf(seq, id) == {j \in 1..Len(seq) : seq[j].document_id = id}

C21_MergeOrder ==
    \A u \in Users, limit \in Limits :
        LET all_results == chat_search(CurrentUser(u), "all", limit) IN
        \A j, k \in 1..Len(all_results) :
            j < k =>
                /\ all_results[j].score >= all_results[k].score
                /\ all_results[j].score = all_results[k].score =>
                      ~(/\ all_results[j].visibility = "private"
                        /\ all_results[k].visibility = "organization")

\* C21 witness: an organization chunk and a private chunk tie, and the
\* result holds both
C21_Witness ==
    \E u \in Authenticated :
        LET all_results == chat_search(CurrentUser(u), "all", MaxLimit) IN
        /\ Len(all_results) = 2
        /\ all_results[1].score = all_results[2].score
        /\ all_results[1].visibility = "organization"
        /\ all_results[2].visibility = "private"

\* C22: no chunk of a scope all result has a score below score_threshold.
C22_ScoreThreshold ==
    \A u \in Users, limit \in Limits :
        \A c \in Results(u, "all", limit) : c.score >= ScoreThreshold

\* C23: search returns at most top_k chunks for every user and scope;
\* scope organization without organization returns nothing, and scope all
\* with an empty scope returns the results of the other one.
C23_GracefulSearch ==
    \A u \in Users, limit \in Limits :
        LET cu == CurrentUser(u)
            all_results == chat_search(cu, "all", limit)
            org_results == chat_search(cu, "organization", limit)
            private_results == chat_search(cu, "private", limit) IN
        /\ \A scope \in Scopes : Len(chat_search(cu, scope, limit)) <= limit
        /\ cu.organization_id = Null => org_results = <<>>
        /\ org_results = <<>> => all_results = private_results
        /\ private_results = <<>> => all_results = org_results

\* C23 witness: one user without organization has private results only,
\* another has organization results only
C23_Witness ==
    /\ \E u \in Authenticated :
          /\ users[u].organization_id = Null
          /\ Results(u, "all", MaxLimit) # {}
    /\ \E u \in Authenticated :
          /\ Results(u, "private", MaxLimit) = {}
          /\ Results(u, "all", MaxLimit) # {}

\* C24: a daily counter counts as zero when first touched on a new day: a
\* member of an organization that has charged no query today is admitted,
\* whatever was used up on earlier days.
C24_LazyDailyReset ==
    \A u \in Authenticated :
        LET o == users[u].organization_id IN
        (o # Null /\ org_queries_today(o) = 0) => chat_result(u) = "admitted"

\* uploads admitted and not finished
UploadsInFlight == {r \in Reqs : uploads[r].pc # "idle"}

VisibleTo(u) ==
    {d \in Present :
        \/ /\ users[u].organization_id # Null
           /\ docs[d].visibility = "organization"
           /\ docs[d].organization_id = users[u].organization_id
        \/ /\ docs[d].visibility = "private"
           /\ docs[d].uploaded_by_user_id = u}

\* C26: the listing of a user is exactly the organization documents of the
\* user's organization, if it has one, and the user's own private documents;
\* it never holds another user's private document.
C26_ListVisibleExact ==
    \A u \in Authenticated : list_documents(CurrentUser(u)) = VisibleTo(u)

\* ------------------------------------------------------------------ answer
\* chat_query steps 3 to 7 for one request: texts are sequences of
\* characters, custom_terminology is the dict as the ordered sequence of its
\* items
Alphabet == {"a", "b"}
Definitions == {<<"x">>, <<"y">>}
SeqsUpTo(S, n) == UNION {[1..k -> S] : k \in 0..n}
Texts == SeqsUpTo(Alphabet, MaxTextLen)
Terms == SeqsUpTo(Alphabet, MaxTermLen) \ {<<>>}
Items == [term : Terms, definition : Definitions]
Terminologies ==
    {t \in SeqsUpTo(Items, MaxTerms) :
        \A j, k \in 1..Len(t) : j # k => t[j].term # t[k].term}

\* Python  term in text
Occurs(term, text) ==
    \E j \in 1..(Len(text) - Len(term) + 1) :
        SubSeq(text, j, j + Len(term) - 1) = term

\* Python  text.replace(old, new): every non-overlapping occurrence of old,
\* from the left
RECURSIVE replace(_, _, _)
replace(text, old, new) ==
    IF Len(text) < Len(old) THEN text
    ELSE IF SubSeq(text, 1, Len(old)) = old
    THEN new \o replace(SubSeq(text, Len(old) + 1, Len(text)), old, new)
    ELSE <<Head(text)>> \o replace(Tail(text), old, new)

\* f"{term} ({definition})"
annotation(term, definition) == term \o <<" ", "(">> \o definition \o <<")">>

\* chat_query step 4, the inner loop over custom_terminology.items() for one
\* result, the items taken in order from item j
RECURSIVE apply_terminology(_, _, _)
apply_terminology(terminology, j, text) ==
    IF j > Len(terminology) THEN text
    ELSE apply_terminology(terminology, j + 1,
            IF Occurs(terminology[j].term, text)
            THEN replace(text, terminology[j].term,
                         annotation(terminology[j].term,
                                    terminology[j].definition))
            ELSE text)

\* chat_query step 5: "\n\n".join of the results' source line (written
\* "Source" here) and text
RECURSIVE join_context(_)
join_context(results) ==
    IF results = <<>> THEN <<>>
    ELSE <<"Source", "\n">> \o Head(results)
         \o (IF Len(results) > 1 THEN <<"\n\n">> ELSE <<>>)
         \o join_context(Tail(results))

\* chat_query step 1: the organization's settings are loaded
LoadSettings(t) ==
    /\ step = "idle"
    /\ custom_terminology' = t
    /\ step' = "loaded"
    /\ UNCHANGED <<retrieved, search_results, context>>
    /\ UNCHANGED <<tenancy, documents, chat, now, chatPage>>

\* chat_query step 3: the search hands back the chunks' texts
SearchResults(rs) ==
    /\ step = "loaded"
    /\ retrieved' = rs
    /\ search_results' = rs
    /\ step' = "searched"
    /\ UNCHANGED <<custom_terminology, context>>
    /\ UNCHANGED <<tenancy, documents, chat, now, chatPage>>

\* chat_query step 4
ApplyTerminology ==
    /\ step = "searched"
    /\ search_results' =
         IF custom_terminology # <<>>
         THEN [j \in 1..Len(search_results) |->
                 apply_terminology(custom_terminology, 1, search_results[j])]
         ELSE search_results
    /\ step' = "annotated"
    /\ UNCHANGED <<custom_terminology, retrieved, context>>
    /\ UNCHANGED <<tenancy, documents, chat, now, chatPage>>

\* chat_query step 5
BuildContext ==
    /\ step = "annotated"
    /\ context' = join_context(search_results)
    /\ step' = "built"
    /\ UNCHANGED <<custom_terminology, retrieved, search_results>>
    /\ UNCHANGED <<tenancy, documents, chat, now, chatPage>>

\* chat_query step 7: the completion is called with the context
Complete ==
    /\ step = "built"
    /\ step' = "completed"
    /\ UNCHANGED <<custom_terminology, retrieved, search_results, context>>
    /\ UNCHANGED <<tenancy, documents, chat, now, chatPage>>

\* chat_query return: the request is over
Respond ==
    /\ step = "completed"
    /\ custom_terminology' = <<>>
    /\ retrieved' = <<>>
    /\ search_results' = <<>>
    /\ context' = <<>>
    /\ step' = "idle"
    /\ UNCHANGED <<tenancy, documents, chat, now, chatPage>>

AnswerNext ==
    \/ \E t \in Terminologies : LoadSettings(t)
    \/ \E rs \in SeqsUpTo(Texts, MaxResults) : SearchResults(rs)
    \/ ApplyTerminology
    \/ BuildContext
    \/ Complete
    \/ Respond

SpecAnswer == Init /\ [][AnswerNext]_vars

\* C27: every term of the terminology that occurs in a retrieved chunk's text
\* is followed by its expansion in that chunk of the context the completion
\* is called with.
C27_TermsAnnotated ==
    step = "completed" =>
        \A j \in 1..Len(retrieved), k \in 1..Len(custom_terminology) :
            LET item == custom_terminology[k] IN
            Occurs(item.term, retrieved[j]) =>
                /\ Occurs(annotation(item.term, item.definition),
                          search_results[j])
                /\ Occurs(search_results[j], context)

\* C28: a search of any scope and a listing issued by user u hold an
\* organization-visible chunk or document of organization O only while u has
\* an active membership in O, so not after u was removed from O.
C28_ActiveMembersOnly ==
    \A u \in Authenticated :
        /\ \A scope \in Scopes, limit \in Limits :
              \A c \in Results(u, scope, limit) :
                  c.visibility = "organization" =>
                      ActiveRows(c.organization_id, u) # {}
        /\ \A d \in list_documents(CurrentUser(u)) :
              docs[d].visibility = "organization" =>
                  ActiveRows(docs[d].organization_id, u) # {}

\* registered users whose own status is not active or whose organization is
\* not active
Blocked ==
    {u \in Registered :
        \/ users[u].status # "active"
        \/ /\ users[u].organization_id # Null
           /\ orgs[users[u].organization_id].status # "active"}

\* a request of user u arrives: upload, delete or query
RequestBy(u) ==
    \/ \E r \in Reqs, v \in Visibilities : UploadCheck(r, u, v)
    \/ \E d \in DocIds : DeleteDocument(u, d)
    \/ \E r \in ChatReqs : ChatAdmit(r, u)

\* C29: an upload, listing, deletion or query of a user whose organization is
\* suspended or deleted, or whose own status is not active, is answered 403
\* and its arrival changes no quota, document, file or vector-store state.
C29_BlockedRejected ==
    /\ [](\A u \in Blocked :
             /\ \A v \in Visibilities : upload_result(u, v) = "403_inactive"
             /\ \A d \in DocIds : delete_result(u, d) = "403_inactive"
             /\ list_result(u) = "403_inactive"
             /\ chat_result(u) = "403_inactive")
    /\ [][\A u \in Blocked :
             RequestBy(u) => UNCHANGED <<documents, chat>>]_vars

\* C29 witness: an organization with a stored, indexed document is suspended
\* or deleted while its uploader still belongs to it, and a personal-mode
\* registrant is pending approval
C29_Witness ==
    /\ \E u \in Blocked, d \in Present :
          /\ users[u].status = "active"
          /\ docs[d].uploaded_by_user_id = u
          /\ docs[d].organization_id = users[u].organization_id
          /\ Indexed(d)
    /\ \E u \in Blocked : users[u].status = "pending"

\* ------------------------------------------------------------------ chat page
\* ChatPage and its ChatInput: input is the text of the textarea, messages
\* the list shown, requests the chatApi.query calls awaiting their response
Inputs == SeqsUpTo({" ", "q"}, MaxInputLen)

\* JavaScript  String.prototype.trim  on the leading side
RECURSIVE trimStart(_)
trimStart(text) ==
    IF text # <<>> /\ Head(text) = " " THEN trimStart(Tail(text)) ELSE text

\* and on the trailing side
RECURSIVE trimEnd(_)
trimEnd(text) ==
    IF text # <<>> /\ text[Len(text)] = " "
    THEN trimEnd(SubSeq(text, 1, Len(text) - 1)) ELSE text

trim(text) == trimEnd(trimStart(text))

returns_early_when_blank(text, busy) == trim(text) = <<>>

\* the guard of handleSubmit and of handleSend:
\* if (!input.trim() || loading) return
returns_early(text, busy) == trim(text) = <<>> \/ busy

\* ChatInput onChange: setInput(e.target.value)
onChange(value) ==
    /\ input' = value
    /\ input # value
    /\ UNCHANGED <<messages, loading, requests>>
    /\ UNCHANGED <<tenancy, documents, chat, now, answering>>

\* ChatInput handleSubmit, which calls ChatPage handleSend up to its await:
\* the user message is appended, loading set and the query sent; then the
\* textarea is emptied
handleSubmit ==
    /\ Len(messages) + 2 <= MaxMessages
    /\ IF returns_early(input, loading)
       THEN UNCHANGED <<messages, loading, input, requests>>
       ELSE /\ IF returns_early(input, loading)
               THEN UNCHANGED <<messages, loading, requests>>
               ELSE /\ messages' = Append(messages,
                                     [role |-> "user", content |-> input])
                    /\ loading' = TRUE
                    /\ requests' = requests + 1
            /\ input' = <<>>
    /\ UNCHANGED <<tenancy, documents, chat, now, answering>>

\* handleSend after its await: the answer on success, an error message in
\* the catch branch, and setLoading(false) in finally
handleResponse(ok) ==
    /\ requests > 0
    /\ messages' = Append(messages,
          [role |-> "assistant",
           content |-> IF ok THEN <<"answer">> ELSE <<"error">>])
    /\ loading' = FALSE
    /\ requests' = requests - 1
    /\ UNCHANGED input
    /\ UNCHANGED <<tenancy, documents, chat, now, answering>>

PageNext ==
    \/ \E value \in Inputs : onChange(value)
    \/ handleSubmit
    \/ \E ok \in BOOLEAN : handleResponse(ok)

SpecPage == Init /\ [][PageNext]_vars

\* C30: at most one chat query is in flight, loading is set exactly while it
\* is, and the messages alternate: every user message is followed by one
\* assistant message before the next user message, the last user message
\* being unanswered exactly while its query is in flight.
C30_OneQueryInFlight ==
    /\ requests <= 1
    /\ loading <=> requests = 1
    /\ \A j \in 1..Len(messages) :
          messages[j].role = IF j % 2 = 1 THEN "user" ELSE "assistant"
    /\ Len(messages) % 2 = requests

\* C30 witness: a query was answered with an error, a later one is in flight
\* and the next text is already typed
C30_Witness ==
    /\ Len(messages) >= 3
    /\ messages[2].content = <<"error">>
    /\ loading /\ requests = 1
    /\ trim(input) # <<>>

====
